---------------------------- MODULE Spec2Model ----------------------------
(***************************************************************************)
(* Model of shelly-net-metering-script.js: the power integrator            *)
(* (integratePower), the totals change detector                            *)
(* (updateTotalsChangeDetection), the corrector (applyCorrectionIfReady)   *)
(* and the start-up code that loads the persisted accumulators.            *)
(*                                                                         *)
(* Numbers.  The script computes with JavaScript doubles.  The model       *)
(* computes with exact rationals [n |-> numerator, d |-> denominator],     *)
(* d > 0, in lowest terms; rounding of doubles is not modelled.  A value   *)
(* that is not a finite number (null, undefined, NaN) is the record Null,  *)
(* whose denominator is 0.  Uptimes are integers (ms); the uptime "null"   *)
(* is NoTime.                                                              *)
(***************************************************************************)
EXTENDS Integers, Sequences, FiniteSets, TLC

(***************************************************************************)
(* Bounds of the model.                                                    *)
(***************************************************************************)
\* The device uptime runs from 0 to MaxUptimeSteps clock steps.
MaxUptimeSteps == 4

\* The largest reading of a reference counter (Wh).
MaxTotal == 6

\* One clock step (ms): half of the debounce interval, so that a pending
\* correction is seen both before and after the debounce has elapsed.
ClockSteps == {0, 2500}

MaxUptime == MaxUptimeSteps * 2500

(***************************************************************************)
(* Program constants.                                                      *)
(***************************************************************************)
\* let NET_METERED_ENERGY_ID = 200 / NET_METERED_ENERGY_RET_ID = 201
NET_METERED_ENERGY_ID == 200

NET_METERED_ENERGY_RET_ID == 201

\* "if ((now - totals_last_change_uptime_ms) < 5000) return;"
DEBOUNCE_MS == 5000

\* "p * (dt_ms / 3600000.0)"
MS_PER_HOUR == 3600000

NoTime == -1

(***************************************************************************)
(* Exact rational arithmetic standing for the script's number type.        *)
(***************************************************************************)
Null == [n |-> 0, d |-> 0]

RECURSIVE GCD(_, _)
GCD(a, b) == IF b = 0 THEN a ELSE GCD(b, a % b)

Abs(i) == IF i < 0 THEN -i ELSE i

\* The rational a / b in lowest terms with a positive denominator (b # 0).
Rat(a, b) ==
    LET g == GCD(Abs(a), Abs(b))
        sgn == IF b < 0 THEN -1 ELSE 1
    IN  [n |-> sgn * (a \div g), d |-> sgn * (b \div g)]

R(i) == [n |-> i, d |-> 1]

RAdd(x, y) == Rat(x.n * y.d + y.n * x.d, x.d * y.d)

RNeg(x) == [n |-> -x.n, d |-> x.d]

RSub(x, y) == RAdd(x, RNeg(y))

RMul(x, y) == Rat(x.n * y.n, x.d * y.d)

\* x / y; a division by zero gives Infinity or NaN, neither a finite number.
RDiv(x, y) == IF y.n = 0 THEN Null ELSE Rat(x.n * y.d, x.d * y.n)

RAbs(x) == [n |-> Abs(x.n), d |-> x.d]

RLt(x, y) == x.n * y.d < y.n * x.d

RLe(x, y) == x.n * y.d <= y.n * x.d

\* const ENERGY_EPSILON_WH = 0.001;
ENERGY_EPSILON_WH == Rat(1, 1000)

\* function isNumber(x): typeof x === "number" && isFinite(x)
isNumber(x) == x.d # 0

\* clampMinMax without its lower bound.
clampMinMax_noMin(value, minValue, maxValue) ==
    IF RLt(maxValue, value) THEN maxValue ELSE value

\* function clampMinMax(value, minValue, maxValue)
clampMinMax(value, minValue, maxValue) ==
    IF RLt(value, minValue) THEN minValue
    ELSE IF RLt(maxValue, value) THEN maxValue
    ELSE value

(***************************************************************************)
(* Inputs.                                                                 *)
(***************************************************************************)
\* em.total_act_power (W): export or import (0.5 Wh in 2500 ms); Null:
\* unavailable.
Powers == {R(-720), R(720), Null}

EmData(t, r) == [total_act |-> t, total_act_ret |-> r]

NoEmData == EmData(Null, Null)

\* The emdata status: emdata.total_act and emdata.total_act_ret (Wh), or
\* unavailable.  Between these readings the net reference delta is 0 (the
\* counters changed and came back to the baseline), negative, and 1/20,
\* MaxTotal - 1/10 or MaxTotal - 1/20, which against windows of 1/2 .. 2 Wh
\* give ratios below 0.1, inside [0.1, 10] and above 10.
EmDataReadings ==
    {EmData(R(0), R(0)), EmData(Rat(1, 20), R(0)),
     EmData(R(MaxTotal), Rat(1, 20)), NoEmData}

\* The two virtual number components at start-up: missing
\* (Virtual.getHandle gives null), or present with a stored value.
StoredNumbers ==
    {[exists |-> FALSE, value |-> Null],
     [exists |-> TRUE, value |-> R(3)]}

(***************************************************************************)
(* State.                                                                  *)
(***************************************************************************)
VARIABLES
    \* the script's runtime state
    net_metered_energy_handle,
    net_metered_energy_ret_handle,
    net_metered_energy_wh,
    net_metered_energy_ret_wh,
    delta_energy_integrate_wh,
    delta_energy_ret_integrate_wh,
    baseline_total_energy_wh,
    baseline_total_energy_ret_wh,
    last_seen_total_energy_wh,
    last_seen_total_energy_ret_wh,
    totals_changed_since_last_correction,
    totals_last_change_uptime_ms,
    last_correction_uptime_ms,
    last_integration_uptime_ms,
    current_total_energy_wh,
    current_total_energy_ret_wh,
    \* the "Correction applied:" log lines written so far
    correction_log,
    \* the device
    uptime_ms,      \* Shelly.getUptimeMs()
    virtual_numbers, \* the virtual number components 200 and 201
    \* the scheduler
    handler,        \* the callback that ran last
    available,      \* the status it asked for (em / emdata) was available
    fired,          \* the timer callbacks that ran at the current uptime
    \* history, for stating properties
    sample_sum,     \* the energies p * dt_ms / 3600000 of the samples
                    \* integrated since the last window reset, summed by
                    \* sign: [pos, neg] (Wh)
    totals_read,    \* some read of the totals has succeeded
    totals_varied,  \* since the baseline was last set, a successful read
                    \* gave other counters than the successful read before it
    startup,        \* the accumulators as loaded by loadPersisted
    ticked,         \* how often integrationTick has run: "never", "once"
                    \* or "more"
    discarded,      \* the baseline's first setting emptied a window that
                    \* held energy
    store_failed,   \* the device did not take the values the last
                    \* correction stored
    run,            \* the fast ticks since the window began: from is the
                    \* anchor they started at, n the number of ticks that
                    \* integrated, kind "none" if n = 0, "const" if all of
                    \* them found the same power p, "mixed" otherwise (a
                    \* tick without a sample counts as another power)
    seen,           \* the last write of last_seen_total_energy_wh and
                    \* last_seen_total_energy_ret_wh: at is the uptime of
                    \* the callback that wrote them, by its name
    \* the device's reference counters
    counters        \* how they behave in this run: "any" (no restriction),
                    \* "monotone" (from one successful read to the next
                    \* neither counter decreases), "settle" (every slow
                    \* tick reads them, and they change once after the
                    \* baseline was set and then stay) or "restless" (no
                    \* successful read gives the counters of the
                    \* successful read before it)

progVars ==
    <<net_metered_energy_handle, net_metered_energy_ret_handle,
      net_metered_energy_wh, net_metered_energy_ret_wh,
      delta_energy_integrate_wh, delta_energy_ret_integrate_wh,
      baseline_total_energy_wh, baseline_total_energy_ret_wh,
      last_seen_total_energy_wh, last_seen_total_energy_ret_wh,
      totals_changed_since_last_correction, totals_last_change_uptime_ms,
      last_correction_uptime_ms, last_integration_uptime_ms,
      current_total_energy_wh, current_total_energy_ret_wh>>

vars ==
    <<progVars, correction_log, uptime_ms, virtual_numbers, handler,
      available, fired, sample_sum, totals_read, totals_varied, startup,
      ticked, discarded, store_failed, run, seen, counters>>

\* The script's runtime state and its effects (log, stored values) as one
\* record, the form in which the functions below take and return it.
State ==
    [net_metered_energy_handle |-> net_metered_energy_handle,
     net_metered_energy_ret_handle |-> net_metered_energy_ret_handle,
     net_metered_energy_wh |-> net_metered_energy_wh,
     net_metered_energy_ret_wh |-> net_metered_energy_ret_wh,
     delta_energy_integrate_wh |-> delta_energy_integrate_wh,
     delta_energy_ret_integrate_wh |-> delta_energy_ret_integrate_wh,
     baseline_total_energy_wh |-> baseline_total_energy_wh,
     baseline_total_energy_ret_wh |-> baseline_total_energy_ret_wh,
     last_seen_total_energy_wh |-> last_seen_total_energy_wh,
     last_seen_total_energy_ret_wh |-> last_seen_total_energy_ret_wh,
     totals_changed_since_last_correction |->
         totals_changed_since_last_correction,
     totals_last_change_uptime_ms |-> totals_last_change_uptime_ms,
     last_correction_uptime_ms |-> last_correction_uptime_ms,
     last_integration_uptime_ms |-> last_integration_uptime_ms,
     current_total_energy_wh |-> current_total_energy_wh,
     current_total_energy_ret_wh |-> current_total_energy_ret_wh,
     correction_log |-> correction_log,
     virtual_numbers |-> virtual_numbers]

\* The next state holds the record s.
Becomes(s) ==
    /\ net_metered_energy_handle' = s.net_metered_energy_handle
    /\ net_metered_energy_ret_handle' = s.net_metered_energy_ret_handle
    /\ net_metered_energy_wh' = s.net_metered_energy_wh
    /\ net_metered_energy_ret_wh' = s.net_metered_energy_ret_wh
    /\ delta_energy_integrate_wh' = s.delta_energy_integrate_wh
    /\ delta_energy_ret_integrate_wh' = s.delta_energy_ret_integrate_wh
    /\ baseline_total_energy_wh' = s.baseline_total_energy_wh
    /\ baseline_total_energy_ret_wh' = s.baseline_total_energy_ret_wh
    /\ last_seen_total_energy_wh' = s.last_seen_total_energy_wh
    /\ last_seen_total_energy_ret_wh' = s.last_seen_total_energy_ret_wh
    /\ totals_changed_since_last_correction' =
           s.totals_changed_since_last_correction
    /\ totals_last_change_uptime_ms' = s.totals_last_change_uptime_ms
    /\ last_correction_uptime_ms' = s.last_correction_uptime_ms
    /\ last_integration_uptime_ms' = s.last_integration_uptime_ms
    /\ current_total_energy_wh' = s.current_total_energy_wh
    /\ current_total_energy_ret_wh' = s.current_total_energy_ret_wh
    /\ correction_log' = s.correction_log
    /\ virtual_numbers' = s.virtual_numbers

(***************************************************************************)
(* Shelly readings.                                                        *)
(***************************************************************************)
\* function readTotalPowerW(): the power, or null if unavailable
readTotalPowerW(p) == IF isNumber(p) THEN p ELSE Null

\* readTotalsWh taking a missing counter for 0.
readTotalsWh_zeroDefault(s, st) ==
    [ok |-> TRUE,
     state |->
         [s EXCEPT !.current_total_energy_wh =
                       IF isNumber(st.total_act) THEN st.total_act ELSE R(0),
                   !.current_total_energy_ret_wh =
                       IF isNumber(st.total_act_ret) THEN st.total_act_ret
                       ELSE R(0)]]

\* function readTotalsWh() on the emdata status st: ok is its return value,
\* state the state it leaves (the counters stored on success).
readTotalsWh(s, st) ==
    IF ~isNumber(st.total_act) \/ ~isNumber(st.total_act_ret)
    THEN [ok |-> FALSE, state |-> s]
    ELSE [ok |-> TRUE,
          state |-> [s EXCEPT !.current_total_energy_wh = st.total_act,
                              !.current_total_energy_ret_wh =
                                  st.total_act_ret]]

(***************************************************************************)
(* Integration and correction.  Each function takes the state s and the    *)
(* value now that getUptimeMs() returns during the callback, and gives the *)
(* state it leaves; a callback runs to completion within one reading of    *)
(* the millisecond clock.                                                  *)
(***************************************************************************)
\* integratePower without the split by sign: every energy goes to the import
\* side of the window.
integratePower_unsigned(s, now, p) ==
    IF s.last_integration_uptime_ms = NoTime
    THEN [s EXCEPT !.last_integration_uptime_ms = now]
    ELSE LET dt_ms == now - s.last_integration_uptime_ms IN
         IF dt_ms <= 0 THEN s
         ELSE LET s1 == [s EXCEPT !.last_integration_uptime_ms = now]
                  pw == readTotalPowerW(p)
              IN  IF ~isNumber(pw) THEN s1
                  ELSE [s1 EXCEPT !.delta_energy_integrate_wh =
                           RAdd(s1.delta_energy_integrate_wh,
                                RMul(pw, Rat(dt_ms, MS_PER_HOUR)))]

\* integratePower taking the timer period INTEGRATION_TICK_MS (500 ms) for
\* the elapsed time.
integratePower_fixedPeriod(s, now, p) ==
    IF s.last_integration_uptime_ms = NoTime
    THEN [s EXCEPT !.last_integration_uptime_ms = now]
    ELSE LET dt_ms == now - s.last_integration_uptime_ms IN
         IF dt_ms <= 0 THEN s
         ELSE LET s1 == [s EXCEPT !.last_integration_uptime_ms = now]
                  pw == readTotalPowerW(p)
              IN  IF ~isNumber(pw) THEN s1
                  ELSE LET wh == RMul(pw, Rat(500, MS_PER_HOUR)) IN
                       IF RLe(R(0), wh)
                       THEN [s1 EXCEPT !.delta_energy_integrate_wh =
                                RAdd(s1.delta_energy_integrate_wh, wh)]
                       ELSE [s1 EXCEPT !.delta_energy_ret_integrate_wh =
                                RAdd(s1.delta_energy_ret_integrate_wh,
                                     RNeg(wh))]

\* integratePower reading the power before it moves the anchor: a tick
\* without a power sample returns at once.
integratePower_readFirst(s, now, p) ==
    LET pw == readTotalPowerW(p) IN
    IF ~isNumber(pw) THEN s
    ELSE IF s.last_integration_uptime_ms = NoTime
    THEN [s EXCEPT !.last_integration_uptime_ms = now]
    ELSE LET dt_ms == now - s.last_integration_uptime_ms IN
         IF dt_ms <= 0 THEN s
         ELSE LET s1 == [s EXCEPT !.last_integration_uptime_ms = now]
                  wh == RMul(pw, Rat(dt_ms, MS_PER_HOUR))
              IN  IF RLe(R(0), wh)
                  THEN [s1 EXCEPT !.delta_energy_integrate_wh =
                           RAdd(s1.delta_energy_integrate_wh, wh)]
                  ELSE [s1 EXCEPT !.delta_energy_ret_integrate_wh =
                           RAdd(s1.delta_energy_ret_integrate_wh, RNeg(wh))]

\* integratePower taking an unset anchor for the uptime 0: the first tick
\* integrates over the time since boot.
integratePower_fromBoot(s, now, p) ==
    LET anchor == IF s.last_integration_uptime_ms = NoTime THEN 0
                  ELSE s.last_integration_uptime_ms
        dt_ms == now - anchor
    IN  IF dt_ms <= 0 THEN [s EXCEPT !.last_integration_uptime_ms = now]
        ELSE LET s1 == [s EXCEPT !.last_integration_uptime_ms = now]
                 pw == readTotalPowerW(p)
             IN  IF ~isNumber(pw) THEN s1
                 ELSE LET wh == RMul(pw, Rat(dt_ms, MS_PER_HOUR)) IN
                      IF RLe(R(0), wh)
                      THEN [s1 EXCEPT !.delta_energy_integrate_wh =
                               RAdd(s1.delta_energy_integrate_wh, wh)]
                      ELSE [s1 EXCEPT !.delta_energy_ret_integrate_wh =
                               RAdd(s1.delta_energy_ret_integrate_wh,
                                    RNeg(wh))]

\* integratePower adding the energy to the accumulators as well as to the
\* window.
integratePower_direct(s, now, p) ==
    IF s.last_integration_uptime_ms = NoTime
    THEN [s EXCEPT !.last_integration_uptime_ms = now]
    ELSE LET dt_ms == now - s.last_integration_uptime_ms IN
         IF dt_ms <= 0 THEN s
         ELSE LET s1 == [s EXCEPT !.last_integration_uptime_ms = now]
                  pw == readTotalPowerW(p)
              IN  IF ~isNumber(pw) THEN s1
                  ELSE LET wh == RMul(pw, Rat(dt_ms, MS_PER_HOUR)) IN
                       IF RLe(R(0), wh)
                       THEN [s1 EXCEPT !.delta_energy_integrate_wh =
                                RAdd(s1.delta_energy_integrate_wh, wh),
                                !.net_metered_energy_wh = RAdd(@, wh)]
                       ELSE [s1 EXCEPT !.delta_energy_ret_integrate_wh =
                                RAdd(s1.delta_energy_ret_integrate_wh,
                                     RNeg(wh)),
                                !.net_metered_energy_ret_wh =
                                    RAdd(@, RNeg(wh))]

\* function integratePower(); p is the status of em.total_act_power
integratePower(s, now, p) ==
    IF s.last_integration_uptime_ms = NoTime
    THEN [s EXCEPT !.last_integration_uptime_ms = now]
    ELSE LET dt_ms == now - s.last_integration_uptime_ms IN
         IF dt_ms <= 0 THEN s
         ELSE LET s1 == [s EXCEPT !.last_integration_uptime_ms = now]
                  pw == readTotalPowerW(p)
              IN  IF ~isNumber(pw) THEN s1
                  ELSE LET wh == RMul(pw, Rat(dt_ms, MS_PER_HOUR)) IN
                       IF RLe(R(0), wh)
                       THEN [s1 EXCEPT !.delta_energy_integrate_wh =
                                RAdd(s1.delta_energy_integrate_wh, wh)]
                       ELSE [s1 EXCEPT !.delta_energy_ret_integrate_wh =
                                RAdd(s1.delta_energy_ret_integrate_wh,
                                     RNeg(wh))]

\* startBaselineIfNeeded without its guard: every call starts a new
\* baseline.
startBaselineIfNeeded_everyCall(s, now, t, r) ==
    [s EXCEPT !.baseline_total_energy_wh = t,
              !.baseline_total_energy_ret_wh = r,
              !.last_seen_total_energy_wh = t,
              !.last_seen_total_energy_ret_wh = r,
              !.totals_changed_since_last_correction = FALSE,
              !.totals_last_change_uptime_ms = now,
              !.last_correction_uptime_ms = now,
              !.delta_energy_integrate_wh = R(0),
              !.delta_energy_ret_integrate_wh = R(0)]

\* startBaselineIfNeeded leaving last_seen to the change detection.
startBaselineIfNeeded_baselineOnly(s, now, t, r) ==
    IF ~isNumber(s.baseline_total_energy_wh)
           \/ ~isNumber(s.baseline_total_energy_ret_wh)
    THEN [s EXCEPT !.baseline_total_energy_wh = t,
                   !.baseline_total_energy_ret_wh = r,
                   !.totals_changed_since_last_correction = FALSE,
                   !.totals_last_change_uptime_ms = now,
                   !.last_correction_uptime_ms = now,
                   !.delta_energy_integrate_wh = R(0),
                   !.delta_energy_ret_integrate_wh = R(0)]
    ELSE s

\* function startBaselineIfNeeded(t, r)
startBaselineIfNeeded(s, now, t, r) ==
    IF ~isNumber(s.baseline_total_energy_wh)
           \/ ~isNumber(s.baseline_total_energy_ret_wh)
    THEN [s EXCEPT !.baseline_total_energy_wh = t,
                   !.baseline_total_energy_ret_wh = r,
                   !.last_seen_total_energy_wh = t,
                   !.last_seen_total_energy_ret_wh = r,
                   !.totals_changed_since_last_correction = FALSE,
                   !.totals_last_change_uptime_ms = now,
                   !.last_correction_uptime_ms = now,
                   !.delta_energy_integrate_wh = R(0),
                   !.delta_energy_ret_integrate_wh = R(0)]
    ELSE s

\* updateTotalsChangeDetection without the comparison: every read counts as
\* a change.
updateTotalsChangeDetection_always(s, now, t, r) ==
    [s EXCEPT !.totals_changed_since_last_correction = TRUE,
              !.totals_last_change_uptime_ms = now,
              !.last_seen_total_energy_wh = t,
              !.last_seen_total_energy_ret_wh = r]

\* updateTotalsChangeDetection recording the change time only when it sets
\* the flag: a further change while the flag is set does not restart the
\* debounce.
updateTotalsChangeDetection_keepChangeTime(s, now, t, r) ==
    IF ~isNumber(s.last_seen_total_energy_wh)
           \/ ~isNumber(s.last_seen_total_energy_ret_wh)
    THEN [s EXCEPT !.last_seen_total_energy_wh = t,
                   !.last_seen_total_energy_ret_wh = r]
    ELSE IF t # s.last_seen_total_energy_wh
                \/ r # s.last_seen_total_energy_ret_wh
    THEN [s EXCEPT !.totals_changed_since_last_correction = TRUE,
                   !.totals_last_change_uptime_ms =
                       IF s.totals_changed_since_last_correction
                       THEN @ ELSE now,
                   !.last_seen_total_energy_wh = t,
                   !.last_seen_total_energy_ret_wh = r]
    ELSE s

\* function updateTotalsChangeDetection(t, r)
updateTotalsChangeDetection(s, now, t, r) ==
    IF ~isNumber(s.last_seen_total_energy_wh)
           \/ ~isNumber(s.last_seen_total_energy_ret_wh)
    THEN [s EXCEPT !.last_seen_total_energy_wh = t,
                   !.last_seen_total_energy_ret_wh = r]
    ELSE IF t # s.last_seen_total_energy_wh
                \/ r # s.last_seen_total_energy_ret_wh
    THEN [s EXCEPT !.totals_changed_since_last_correction = TRUE,
                   !.totals_last_change_uptime_ms = now,
                   !.last_seen_total_energy_wh = t,
                   !.last_seen_total_energy_ret_wh = r]
    ELSE s

\* The correction factor starting from "let k = 0.0".
correctionFactor_zeroDefault(sum_total, sum_integrated) ==
    LET raw == RDiv(sum_total, sum_integrated)
        k == IF isNumber(sum_integrated)
                    /\ RLt(ENERGY_EPSILON_WH, RAbs(sum_integrated))
             THEN IF ~isNumber(raw) THEN R(1)
                  ELSE IF RLe(raw, Rat(1, 1000)) THEN R(1)
                  ELSE raw
             ELSE R(0)
    IN  clampMinMax(k, Rat(1, 10), R(10))

\* The correction factor with the ratio upside down.
correctionFactor_inverted(sum_total, sum_integrated) ==
    LET raw == RDiv(sum_integrated, sum_total)
        k == IF isNumber(sum_integrated)
                    /\ RLt(ENERGY_EPSILON_WH, RAbs(sum_integrated))
             THEN IF ~isNumber(raw) THEN R(1)
                  ELSE IF RLe(raw, Rat(1, 1000)) THEN R(1)
                  ELSE raw
             ELSE R(1)
    IN  clampMinMax(k, Rat(1, 10), R(10))

\* The correction factor without "if (k <= 0.001) k = 1.0;": a ratio that is
\* zero or negative goes on to the clamp.
correctionFactor_noFallback(sum_total, sum_integrated) ==
    LET raw == RDiv(sum_total, sum_integrated)
        k == IF isNumber(sum_integrated)
                    /\ RLt(ENERGY_EPSILON_WH, RAbs(sum_integrated))
             THEN IF ~isNumber(raw) THEN R(1)
                  ELSE raw
             ELSE R(1)
    IN  clampMinMax(k, Rat(1, 10), R(10))

\* The correction factor of applyCorrectionIfReady: "let k = 1.0; ..." up to
\* "k = clampMinMax(k, 0.1, 10.0);"
correctionFactor(sum_total, sum_integrated) ==
    LET raw == RDiv(sum_total, sum_integrated)
        k == IF isNumber(sum_integrated)
                    /\ RLt(ENERGY_EPSILON_WH, RAbs(sum_integrated))
             THEN IF ~isNumber(raw) THEN R(1)
                  ELSE IF RLe(raw, Rat(1, 1000)) THEN R(1)
                  ELSE raw
             ELSE R(1)
    IN  clampMinMax(k, Rat(1, 10), R(10))

\* setValue always called on net_metered_energy_handle: both values go to
\* the virtual number NET_METERED_ENERGY_ID.
setValue_sameHandle(s, handle, id, v, ok) ==
    IF s.net_metered_energy_handle /\ ok
    THEN [s EXCEPT !.virtual_numbers[NET_METERED_ENERGY_ID].value = v]
    ELSE s

\* handle.setValue(v) on the virtual number id, skipped when the handle is
\* null.  setValue returns nothing: ok tells whether the device took the
\* value, which the script cannot see.
setValue(s, handle, id, v, ok) ==
    IF handle /\ ok
    THEN [s EXCEPT !.virtual_numbers[id].value = v]
    ELSE s

\* The correction taking the net reference delta itself for the energy of
\* the window: to the import side if positive, to the export side if not.
applyCorrection_byReference(s, now, t, r, ok) ==
    LET dt_total == RSub(t, s.baseline_total_energy_wh)
        dt_ret_total == RSub(r, s.baseline_total_energy_ret_wh)
        sum_total == RSub(dt_total, dt_ret_total)
        sum_integrated == RSub(s.delta_energy_integrate_wh,
                               s.delta_energy_ret_integrate_wh)
        k == correctionFactor(sum_total, sum_integrated)
        dt_int == IF RLt(R(0), sum_total) THEN sum_total ELSE R(0)
        dt_ret_int == IF RLt(sum_total, R(0)) THEN RNeg(sum_total) ELSE R(0)
        s1 == [s EXCEPT !.net_metered_energy_wh = RAdd(@, dt_int),
                        !.net_metered_energy_ret_wh = RAdd(@, dt_ret_int)]
        s2 == setValue(s1, s1.net_metered_energy_handle,
                       NET_METERED_ENERGY_ID, s1.net_metered_energy_wh, ok)
        s3 == setValue(s2, s2.net_metered_energy_ret_handle,
                       NET_METERED_ENERGY_RET_ID,
                       s2.net_metered_energy_ret_wh, ok)
        line == [correction_factor |-> k,
                 delta_total_energy_wh |-> dt_total,
                 delta_total_energy_ret_wh |-> dt_ret_total,
                 sum_total |-> sum_total,
                 sum_integrated |-> sum_integrated,
                 delta_energy_integrate_corrected |-> dt_int,
                 delta_energy_ret_integrate_corrected |-> dt_ret_int,
                 net_metered_energy_wh |-> s3.net_metered_energy_wh,
                 net_metered_energy_ret_wh |-> s3.net_metered_energy_ret_wh]
    IN  [s3 EXCEPT !.correction_log = Append(@, line),
                   !.baseline_total_energy_wh = t,
                   !.baseline_total_energy_ret_wh = r,
                   !.delta_energy_integrate_wh = R(0),
                   !.delta_energy_ret_integrate_wh = R(0),
                   !.totals_changed_since_last_correction = FALSE,
                   !.last_correction_uptime_ms = now,
                   !.last_integration_uptime_ms = now]

\* The correction leaving the integrator's anchor where it is.
applyCorrection_noReanchor(s, now, t, r, ok) ==
    LET dt_total == RSub(t, s.baseline_total_energy_wh)
        dt_ret_total == RSub(r, s.baseline_total_energy_ret_wh)
        sum_total == RSub(dt_total, dt_ret_total)
        sum_integrated == RSub(s.delta_energy_integrate_wh,
                               s.delta_energy_ret_integrate_wh)
        k == correctionFactor(sum_total, sum_integrated)
        dt_int == RMul(s.delta_energy_integrate_wh, k)
        dt_ret_int == RMul(s.delta_energy_ret_integrate_wh, k)
        s1 == [s EXCEPT !.net_metered_energy_wh = RAdd(@, dt_int),
                        !.net_metered_energy_ret_wh = RAdd(@, dt_ret_int)]
        s2 == setValue(s1, s1.net_metered_energy_handle,
                       NET_METERED_ENERGY_ID, s1.net_metered_energy_wh, ok)
        s3 == setValue(s2, s2.net_metered_energy_ret_handle,
                       NET_METERED_ENERGY_RET_ID,
                       s2.net_metered_energy_ret_wh, ok)
        line == [correction_factor |-> k,
                 delta_total_energy_wh |-> dt_total,
                 delta_total_energy_ret_wh |-> dt_ret_total,
                 sum_total |-> sum_total,
                 sum_integrated |-> sum_integrated,
                 delta_energy_integrate_corrected |-> dt_int,
                 delta_energy_ret_integrate_corrected |-> dt_ret_int,
                 net_metered_energy_wh |-> s3.net_metered_energy_wh,
                 net_metered_energy_ret_wh |-> s3.net_metered_energy_ret_wh]
    IN  [s3 EXCEPT !.correction_log = Append(@, line),
                   !.baseline_total_energy_wh = t,
                   !.baseline_total_energy_ret_wh = r,
                   !.delta_energy_integrate_wh = R(0),
                   !.delta_energy_ret_integrate_wh = R(0),
                   !.totals_changed_since_last_correction = FALSE,
                   !.last_correction_uptime_ms = now]

\* The correction itself: applyCorrectionIfReady after its two guards.
applyCorrection(s, now, t, r, ok) ==
    LET dt_total == RSub(t, s.baseline_total_energy_wh)
        dt_ret_total == RSub(r, s.baseline_total_energy_ret_wh)
        sum_total == RSub(dt_total, dt_ret_total)
        sum_integrated == RSub(s.delta_energy_integrate_wh,
                               s.delta_energy_ret_integrate_wh)
        k == correctionFactor(sum_total, sum_integrated)
        dt_int == RMul(s.delta_energy_integrate_wh, k)
        dt_ret_int == RMul(s.delta_energy_ret_integrate_wh, k)
        s1 == [s EXCEPT !.net_metered_energy_wh = RAdd(@, dt_int),
                        !.net_metered_energy_ret_wh = RAdd(@, dt_ret_int)]
        s2 == setValue(s1, s1.net_metered_energy_handle,
                       NET_METERED_ENERGY_ID, s1.net_metered_energy_wh, ok)
        s3 == setValue(s2, s2.net_metered_energy_ret_handle,
                       NET_METERED_ENERGY_RET_ID,
                       s2.net_metered_energy_ret_wh, ok)
        line == [correction_factor |-> k,
                 delta_total_energy_wh |-> dt_total,
                 delta_total_energy_ret_wh |-> dt_ret_total,
                 sum_total |-> sum_total,
                 sum_integrated |-> sum_integrated,
                 delta_energy_integrate_corrected |-> dt_int,
                 delta_energy_ret_integrate_corrected |-> dt_ret_int,
                 net_metered_energy_wh |-> s3.net_metered_energy_wh,
                 net_metered_energy_ret_wh |-> s3.net_metered_energy_ret_wh]
    IN  [s3 EXCEPT !.correction_log = Append(@, line),
                   !.baseline_total_energy_wh = t,
                   !.baseline_total_energy_ret_wh = r,
                   !.delta_energy_integrate_wh = R(0),
                   !.delta_energy_ret_integrate_wh = R(0),
                   !.totals_changed_since_last_correction = FALSE,
                   !.last_correction_uptime_ms = now,
                   !.last_integration_uptime_ms = now]

\* applyCorrectionIfReady measuring the debounce from the last correction
\* instead of the last change of the totals.
applyCorrectionIfReady_sinceCorrection(s, now, t, r, ok) ==
    IF ~s.totals_changed_since_last_correction THEN s
    ELSE IF (now - s.last_correction_uptime_ms) < DEBOUNCE_MS THEN s
    ELSE applyCorrection(s, now, t, r, ok)

\* function applyCorrectionIfReady(t, r)
applyCorrectionIfReady(s, now, t, r, ok) ==
    IF ~s.totals_changed_since_last_correction THEN s
    ELSE IF (now - s.totals_last_change_uptime_ms) < DEBOUNCE_MS THEN s
    ELSE applyCorrection(s, now, t, r, ok)

\* totalsTick ignoring the result of readTotalsWh: after a failed read it
\* goes on with the counters of the last successful one.
totalsTick_ignoreRead(s, now, st, ok) ==
    LET s1 == readTotalsWh(s, st).state
        s2 == startBaselineIfNeeded(s1, now, s1.current_total_energy_wh,
                                    s1.current_total_energy_ret_wh)
        s3 == updateTotalsChangeDetection(s2, now,
                                          s2.current_total_energy_wh,
                                          s2.current_total_energy_ret_wh)
    IN  applyCorrectionIfReady(s3, now, s3.current_total_energy_wh,
                               s3.current_total_energy_ret_wh, ok)

\* function totalsTick(); st is the emdata status, ok the outcome of the
\* stores of a correction
totalsTick(s, now, st, ok) ==
    LET rd == readTotalsWh(s, st) IN
    IF ~rd.ok THEN s
    ELSE LET s1 == rd.state
             s2 == startBaselineIfNeeded(s1, now, s1.current_total_energy_wh,
                                         s1.current_total_energy_ret_wh)
             s3 == updateTotalsChangeDetection(s2, now,
                                               s2.current_total_energy_wh,
                                               s2.current_total_energy_ret_wh)
         IN  applyCorrectionIfReady(s3, now, s3.current_total_energy_wh,
                                    s3.current_total_energy_ret_wh, ok)

(***************************************************************************)
(* Start-up.                                                               *)
(***************************************************************************)
\* function loadPersisted()
loadPersisted(s) ==
    LET h1 == s.virtual_numbers[NET_METERED_ENERGY_ID].exists
        h2 == s.virtual_numbers[NET_METERED_ENERGY_RET_ID].exists
        v1 == IF h1 THEN s.virtual_numbers[NET_METERED_ENERGY_ID].value
              ELSE Null
        v2 == IF h2 THEN s.virtual_numbers[NET_METERED_ENERGY_RET_ID].value
              ELSE Null
    IN  [s EXCEPT !.net_metered_energy_handle = h1,
                  !.net_metered_energy_ret_handle = h2,
                  !.net_metered_energy_wh = IF isNumber(v1) THEN v1 ELSE R(0),
                  !.net_metered_energy_ret_wh =
                      IF isNumber(v2) THEN v2 ELSE R(0)]

\* The last callback of start(): loadPersisted, the first read of the
\* totals and, if it succeeds, the baseline.
start(s, now, st) ==
    LET s1 == loadPersisted(s)
        rd == readTotalsWh(s1, st)
        s2 == rd.state
    IN  IF rd.ok
        THEN startBaselineIfNeeded(s2, now, s2.current_total_energy_wh,
                                   s2.current_total_energy_ret_wh)
        ELSE s2

(***************************************************************************)
(* The state machine.                                                      *)
(***************************************************************************)
\* The script's "let" declarations, before start() has run.
ScriptInit ==
    /\ net_metered_energy_handle = FALSE
    /\ net_metered_energy_ret_handle = FALSE
    /\ net_metered_energy_wh = R(0)
    /\ net_metered_energy_ret_wh = R(0)
    /\ delta_energy_integrate_wh = R(0)
    /\ delta_energy_ret_integrate_wh = R(0)
    /\ baseline_total_energy_wh = Null
    /\ baseline_total_energy_ret_wh = Null
    /\ last_seen_total_energy_wh = Null
    /\ last_seen_total_energy_ret_wh = Null
    /\ totals_changed_since_last_correction = FALSE
    /\ totals_last_change_uptime_ms = 0
    /\ last_correction_uptime_ms = 0
    /\ last_integration_uptime_ms = NoTime
    /\ current_total_energy_wh = Null
    /\ current_total_energy_ret_wh = Null
    /\ correction_log = <<>>
    /\ uptime_ms = 0
    /\ \E c \in StoredNumbers :
          virtual_numbers =
              [id \in {NET_METERED_ENERGY_ID, NET_METERED_ENERGY_RET_ID} |-> c]
    /\ handler = "none"
    /\ available = FALSE
    /\ fired = {}
    /\ sample_sum = [pos |-> R(0), neg |-> R(0)]
    /\ totals_read = FALSE
    /\ totals_varied = FALSE
    /\ startup = <<Null, Null>>
    /\ ticked = "never"
    /\ store_failed = FALSE
    /\ discarded = FALSE
    /\ run = [kind |-> "none", p |-> Null, from |-> NoTime, n |-> 0]
    /\ seen = [at |-> NoTime, by |-> "none"]

\* The script before start() has run, on a device whose counters may read
\* anything.
Init == ScriptInit /\ counters = "any"

\* The history after the power p was integrated over dt_ms.
Sampled(p, dt_ms) ==
    LET wh == RMul(p, Rat(dt_ms, MS_PER_HOUR)) IN
    sample_sum' = IF RLe(R(0), wh)
                  THEN [sample_sum EXCEPT !.pos = RAdd(@, wh)]
                  ELSE [sample_sum EXCEPT !.neg = RAdd(@, RNeg(wh))]

\* The window was reset between the state s and its successor s1.
WindowReset(s, s1) ==
    \/ Len(s1.correction_log) > Len(s.correction_log)
    \/ /\ ~isNumber(s.baseline_total_energy_wh)
             \/ ~isNumber(s.baseline_total_energy_ret_wh)
       /\ isNumber(s1.baseline_total_energy_wh)

\* The emdata status st holds both counters.
Available(st) == st # NoEmData

\* The history of the totals reads after a callback read the status st and
\* left the state s1.
TotalsHistory(st, s1) ==
    /\ available' = Available(st)
    /\ totals_read' = (totals_read \/ Available(st))
    /\ totals_varied' =
           IF WindowReset(State, s1) THEN FALSE
           ELSE \/ totals_varied
                \/ /\ Available(st)
                   /\ totals_read
                   /\ st # EmData(current_total_energy_wh,
                                  current_total_energy_ret_wh)

\* The history seen after the callback cb, running at the uptime now, left
\* the state s1: it wrote the counters last seen if they are not what they
\* were.
SeenAfter(cb, now, s1) ==
    IF <<s1.last_seen_total_energy_wh, s1.last_seen_total_energy_ret_wh>>
           # <<last_seen_total_energy_wh, last_seen_total_energy_ret_wh>>
    THEN [at |-> now, by |-> cb]
    ELSE seen

\* start() completes: the timers are set.
Start ==
    /\ handler = "none"
    /\ \E st \in EmDataReadings :
          \E s1 \in {start(State, uptime_ms, st)} :
          /\ Becomes(s1)
          /\ TotalsHistory(st, s1)
          /\ startup' = <<s1.net_metered_energy_wh,
                          s1.net_metered_energy_ret_wh>>
          /\ seen' = SeenAfter("start", uptime_ms, s1)
    /\ handler' = "start"
    /\ UNCHANGED <<uptime_ms, fired, sample_sum, ticked, discarded,
                   store_failed, run, counters>>

\* A repeating timer calls cb at the uptime now: the clock has advanced
\* since that timer fired last (a period is at least one clock reading).
TimerFires(cb, now) ==
    /\ handler # "none"
    /\ now <= MaxUptime
    /\ now = uptime_ms => cb \notin fired
    /\ uptime_ms' = now
    /\ fired' = IF now = uptime_ms THEN fired \cup {cb} ELSE {cb}
    /\ handler' = cb

\* The history run after a fast tick at the uptime now that read the
\* power p.
RunAfterTick(now, p) ==
    IF last_integration_uptime_ms = NoTime
    THEN [kind |-> "none", p |-> Null, from |-> now, n |-> 0]
    ELSE IF now - last_integration_uptime_ms <= 0 THEN run
    ELSE IF run.kind = "none" /\ isNumber(p)
    THEN [run EXCEPT !.kind = "const", !.p = p, !.n = 1]
    ELSE IF run.kind = "const" /\ p = run.p
    THEN [run EXCEPT !.n = @ + 1]
    ELSE [kind |-> "mixed", p |-> Null, from |-> NoTime, n |-> 0]

\* The history run after a slow tick at the uptime now left the state s1: a
\* correction moves the anchor to now, the baseline's first setting
\* empties the window and leaves the anchor where it is.
RunAfterTotals(now, s1) ==
    IF Len(s1.correction_log) > Len(correction_log)
    THEN [kind |-> "none", p |-> Null, from |-> now, n |-> 0]
    ELSE IF WindowReset(State, s1)
    THEN [kind |-> "none", p |-> Null, from |-> last_integration_uptime_ms,
          n |-> 0]
    ELSE run

\* The fast timer fires: integrationTick().
IntegrationTick ==
    /\ \E step \in ClockSteps, p \in Powers :
          LET now == uptime_ms + step
              dt_ms == now - last_integration_uptime_ms
          IN  /\ TimerFires("integrationTick", now)
              /\ \E s1 \in {integratePower(State, now, p)} : Becomes(s1)
              /\ available' = isNumber(p)
              /\ IF last_integration_uptime_ms # NoTime /\ dt_ms > 0
                        /\ isNumber(p)
                 THEN Sampled(p, dt_ms)
                 ELSE UNCHANGED sample_sum
              /\ run' = RunAfterTick(now, p)
    /\ ticked' = IF ticked = "never" THEN "once" ELSE "more"
    /\ UNCHANGED <<totals_read, totals_varied, startup, discarded,
                   store_failed, seen, counters>>

\* The outcomes of the stores of a slow tick.  A slow tick stores only in a
\* correction, which needs a handle and a change flagged by an earlier
\* tick; in every other state the outcome is immaterial and is not drawn.
StoreOutcomes ==
    IF /\ net_metered_energy_handle \/ net_metered_energy_ret_handle
       /\ totals_changed_since_last_correction
    THEN BOOLEAN
    ELSE {TRUE}

\* The emdata status st is one the counters can give to this slow tick.
\* current_total_energy_wh and current_total_energy_ret_wh hold the
\* counters of the last successful read (readTotalsWh stores them only
\* when it succeeds).
CountersGive(st) ==
    \/ counters = "any"
    \/ /\ counters = "monotone"
       /\ \/ ~Available(st)
          \/ ~isNumber(current_total_energy_wh)
          \/ /\ RLe(current_total_energy_wh, st.total_act)
             /\ RLe(current_total_energy_ret_wh, st.total_act_ret)
    \/ /\ counters = "settle"
       /\ Available(st)
       /\ \/ ~totals_read
          \/ st = EmData(current_total_energy_wh, current_total_energy_ret_wh)
          \/ ~totals_varied /\ correction_log = <<>>
    \/ /\ counters = "restless"
       /\ \/ ~Available(st)
          \/ st # EmData(current_total_energy_wh,
                         current_total_energy_ret_wh)

\* The slow timer fires: totalsTick().
TotalsTick ==
    /\ \E step \in ClockSteps, st \in EmDataReadings, ok \in StoreOutcomes :
          LET now == uptime_ms + step
          IN  /\ TimerFires("totalsTick", now)
              /\ CountersGive(st)
              /\ \E s1 \in {totalsTick(State, now, st, ok)} :
                  /\ Becomes(s1)
                  /\ TotalsHistory(st, s1)
                  /\ IF WindowReset(State, s1)
                     THEN sample_sum' = [pos |-> R(0), neg |-> R(0)]
                     ELSE UNCHANGED sample_sum
                  /\ run' = RunAfterTotals(now, s1)
                  /\ seen' = SeenAfter("totalsTick", now, s1)
                  /\ discarded' =
                         \/ discarded
                         \/ /\ WindowReset(State, s1)
                            /\ Len(s1.correction_log) = Len(correction_log)
                            /\ <<delta_energy_integrate_wh,
                                 delta_energy_ret_integrate_wh>> #
                                   <<R(0), R(0)>>
                  /\ store_failed' =
                         IF Len(s1.correction_log) > Len(correction_log)
                         THEN ~ok /\ (\/ net_metered_energy_handle
                                      \/ net_metered_energy_ret_handle)
                         ELSE store_failed
    /\ UNCHANGED <<startup, ticked, counters>>

(***************************************************************************)
(* The corrector on windows and counters of any size.  The script is taken *)
(* in mid-run, 2500 ms after start(): the baseline was set at start-up,    *)
(* the fast ticks up to now have filled the window, and the slow tick that *)
(* ran just now found the counters changed to (MaxTotal, 1/20).  The       *)
(* powers and counters that lead here are not those of Powers and          *)
(* EmDataReadings: the window may hold less than ENERGY_EPSILON_WH net     *)
(* (import and export nearly in balance), the counters may have moved by   *)
(* less than that.                                                         *)
(***************************************************************************)
\* The window (import, export) in Wh: empty, import only, export only, and
\* import and export in balance but for 1/2000 Wh.
CorrectorWindows ==
    {<<R(0), R(0)>>, <<Rat(1, 2), R(0)>>, <<R(0), Rat(1, 2)>>,
     <<Rat(1, 2), Rat(999, 2000)>>, <<R(1), R(0)>>}

\* The baseline (Wh), from which the counters have advanced to
\* (MaxTotal, 1/20): by (1/10, 1/20), a net reference delta of 1/20; by
\* (1/20 + 1/50000, 1/20), a net of 1/50000; by (1/20, 1/20), a net of 0.
CorrectorBaselines ==
    {<<RSub(R(MaxTotal), Rat(1, 10)), R(0)>>,
     <<RSub(R(MaxTotal), Rat(2501, 50000)), R(0)>>,
     <<RSub(R(MaxTotal), Rat(1, 20)), R(0)>>}

CorrectorInit ==
    /\ \E c \in StoredNumbers :
          /\ virtual_numbers =
                 [id \in {NET_METERED_ENERGY_ID, NET_METERED_ENERGY_RET_ID}
                     |-> c]
          /\ net_metered_energy_handle = c.exists
          /\ net_metered_energy_ret_handle = c.exists
          /\ net_metered_energy_wh = (IF c.exists THEN c.value ELSE R(0))
          /\ net_metered_energy_ret_wh = (IF c.exists THEN c.value ELSE R(0))
          /\ startup = <<net_metered_energy_wh, net_metered_energy_ret_wh>>
    /\ \E w \in CorrectorWindows :
          /\ delta_energy_integrate_wh = w[1]
          /\ delta_energy_ret_integrate_wh = w[2]
          /\ sample_sum = [pos |-> w[1], neg |-> w[2]]
    /\ \E b \in CorrectorBaselines :
          /\ baseline_total_energy_wh = b[1]
          /\ baseline_total_energy_ret_wh = b[2]
    /\ last_seen_total_energy_wh = R(MaxTotal)
    /\ last_seen_total_energy_ret_wh = Rat(1, 20)
    /\ current_total_energy_wh = R(MaxTotal)
    /\ current_total_energy_ret_wh = Rat(1, 20)
    /\ totals_changed_since_last_correction = TRUE
    /\ totals_last_change_uptime_ms = 2500
    /\ last_correction_uptime_ms = 0
    /\ last_integration_uptime_ms = 2500
    /\ correction_log = <<>>
    /\ uptime_ms = 2500
    /\ handler = "totalsTick"
    /\ available = TRUE
    /\ fired = {"integrationTick", "totalsTick"}
    /\ totals_read = TRUE
    /\ totals_varied = TRUE
    /\ ticked = "more"
    /\ store_failed = FALSE
    /\ discarded = FALSE
    /\ run = [kind |-> "mixed", p |-> Null, from |-> NoTime, n |-> 0]
    /\ seen = [at |-> 2500, by |-> "totalsTick"]
    /\ counters = "any"

CorrectorNext == IntegrationTick \/ TotalsTick

CorrectorSpec == CorrectorInit /\ [][CorrectorNext]_vars

\* The script from start(), on a device whose counters may read anything
\* or never decrease.
CountersInit == ScriptInit /\ counters \in {"any", "monotone"}

Next == Start \/ IntegrationTick \/ TotalsTick

Spec == Init /\ [][Next]_vars

CountersSpec == CountersInit /\ [][Next]_vars

\* The script from start(), on a device whose counters settle or are
\* restless.
LiveInit == ScriptInit /\ counters \in {"settle", "restless"}

\* The slow timer fires: the part of TotalsTick that says when it can and
\* what it does to the scheduler.  What totalsTick() then does is defined
\* in every state, so TotalsTick is enabled exactly when SlowTimerFires is,
\* and a step of Next is a step of one exactly when it is a step of the
\* other.
SlowTimerFires ==
    \E step \in ClockSteps, st \in EmDataReadings :
        /\ TimerFires("totalsTick", uptime_ms + step)
        /\ CountersGive(st)

\* The scheduler's part of the state; every firing of a timer changes it.
sched == <<uptime_ms, fired, handler>>

\* Timer.set(TOTALS_TICK_MS, true, totalsTick): the slow timer repeats, so
\* a slow tick that can fire does fire.
LiveSpec == LiveInit /\ [][Next]_vars /\ WF_sched(SlowTimerFires)

(***************************************************************************)
(* Properties.                                                             *)
(***************************************************************************)
\* This step applied a correction: a "Correction applied:" line was logged.
Corrected == Len(correction_log') = Len(correction_log) + 1

\* The last "Correction applied:" line.
LastLine == correction_log[Len(correction_log)]

\* The callback that ran last was a totalsTick that applied a correction.
JustCorrected ==
    /\ handler = "totalsTick"
    /\ available
    /\ correction_log # <<>>
    /\ last_correction_uptime_ms = uptime_ms

\* The state in which this step's totalsTick, having read the counters,
\* calls applyCorrectionIfReady: after startBaselineIfNeeded and
\* updateTotalsChangeDetection.
BeforeCorrector ==
    LET now == uptime_ms'
        t == current_total_energy_wh'
        r == current_total_energy_ret_wh'
        s1 == readTotalsWh(State, EmData(t, r)).state
    IN  updateTotalsChangeDetection(startBaselineIfNeeded(s1, now, t, r),
                                    now, t, r)

\* The net reference delta and the net integrated delta of the correction
\* this step would apply: (t - t0) - (r - r0) and window import - export.
RefDelta ==
    RSub(RSub(current_total_energy_wh', baseline_total_energy_wh),
         RSub(current_total_energy_ret_wh', baseline_total_energy_ret_wh))

IntDelta == RSub(delta_energy_integrate_wh, delta_energy_ret_integrate_wh)

\* C1: net_metered_energy_wh and net_metered_energy_ret_wh never decrease:
\* every step leaves each equal to or greater than its previous value.
C1_NetMeteredNeverDecreases ==
    [][/\ RLe(net_metered_energy_wh, net_metered_energy_wh')
       /\ RLe(net_metered_energy_ret_wh, net_metered_energy_ret_wh')]_vars

\* C1 witness: a correction has raised both accumulators above the values
\* loaded at start-up.
C1_Witness ==
    /\ JustCorrected
    /\ RLt(startup[1], net_metered_energy_wh)
    /\ RLt(startup[2], net_metered_energy_ret_wh)

\* C2: in a slow tick the corrector changes state only if, when it is
\* called, totals_changed_since_last_correction is true and the uptime is at
\* least 5000 ms past totals_last_change_uptime_ms; in every other slow tick
\* it leaves the state as startBaselineIfNeeded and
\* updateTotalsChangeDetection left it, and a slow tick whose read fails
\* applies no correction.
C2_CorrectionOnlyWhenChangedAndDebounced ==
    [][handler' = "totalsTick" =>
          \A mid \in {BeforeCorrector} :
              LET ready == /\ available'
                           /\ mid.totals_changed_since_last_correction
                           /\ uptime_ms' - mid.totals_last_change_uptime_ms
                                  >= 5000
              IN  /\ Corrected => ready
                  /\ (available' /\ ~ready) => State' = mid]_vars

\* C2 witness: a slow tick has applied a correction.
C2_Witness ==
    /\ JustCorrected
    /\ uptime_ms - totals_last_change_uptime_ms >= 5000

\* C3: every correction applied uses a factor k with 0.1 <= k <= 10, and
\* each accumulator grows by at least 0.1 times and at most 10 times the
\* window value it takes up.
C3_ScaleFactorClamped ==
    [][Corrected =>
          LET k == correction_log'[Len(correction_log')].correction_factor
              grown == RSub(net_metered_energy_wh', net_metered_energy_wh)
              grown_ret == RSub(net_metered_energy_ret_wh',
                                net_metered_energy_ret_wh)
          IN  /\ isNumber(k)
              /\ RLe(Rat(1, 10), k) /\ RLe(k, R(10))
              /\ RLe(RMul(Rat(1, 10), delta_energy_integrate_wh), grown)
              /\ RLe(grown, RMul(R(10), delta_energy_integrate_wh))
              /\ RLe(RMul(Rat(1, 10), delta_energy_ret_integrate_wh),
                     grown_ret)
              /\ RLe(grown_ret, RMul(R(10), delta_energy_ret_integrate_wh))
      ]_vars

\* C3 witness: a correction whose raw ratio, positive and below 0.1, was
\* clamped to 0.1.
C3_Witness ==
    /\ JustCorrected
    /\ LastLine.correction_factor = Rat(1, 10)
    /\ RLt(R(0), LastLine.sum_total)
    /\ RLt(RMul(R(10), LastLine.sum_total), LastLine.sum_integrated)

\* C4: a correction with |int_delta| > 0.001 and ref_delta / int_delta in
\* [0.1, 10] adds window import * ref_delta / int_delta to
\* net_metered_energy_wh and window export * ref_delta / int_delta to
\* net_metered_energy_ret_wh, so the net growth is ref_delta, and resets the
\* window to (0, 0).
C4_CorrectionScalesByRatio ==
    [][(/\ Corrected
        /\ RLt(Rat(1, 1000), RAbs(IntDelta))
        /\ RLe(Rat(1, 10), RDiv(RefDelta, IntDelta))
        /\ RLe(RDiv(RefDelta, IntDelta), R(10)))
       => LET ratio == RDiv(RefDelta, IntDelta)
              grown == RSub(net_metered_energy_wh', net_metered_energy_wh)
              grown_ret == RSub(net_metered_energy_ret_wh',
                                net_metered_energy_ret_wh)
          IN  /\ grown = RMul(delta_energy_integrate_wh, ratio)
              /\ grown_ret = RMul(delta_energy_ret_integrate_wh, ratio)
              /\ RSub(grown, grown_ret) = RefDelta
              /\ delta_energy_integrate_wh' = R(0)
              /\ delta_energy_ret_integrate_wh' = R(0)]_vars

\* C4 witness: a correction of a window with import and export that was
\* scaled by a ratio strictly inside (0.1, 10) other than 1.
C4_Witness ==
    /\ JustCorrected
    /\ RLt(Rat(1, 1000), RAbs(LastLine.sum_integrated))
    /\ LastLine.correction_factor
           = RDiv(LastLine.sum_total, LastLine.sum_integrated)
    /\ LastLine.correction_factor \notin {Rat(1, 10), R(1), R(10)}
    /\ RLt(R(0), LastLine.delta_energy_integrate_corrected)
    /\ RLt(R(0), LastLine.delta_energy_ret_integrate_corrected)

\* The energy of one sample of 720 W over one clock step of 2500 ms.  No
\* sample of the model carries less (|p| = 720 W, dt_ms >= 2500), so a
\* window whose positive and negative energies are both PairEnergy consists
\* of one positive and one negative sample of equal magnitude integrated
\* over equal elapsed times.
PairEnergy == RMul(R(720), Rat(2500, MS_PER_HOUR))

PairWindow ==
    /\ sample_sum.pos = PairEnergy
    /\ sample_sum.neg = PairEnergy

\* C5 as stated: a window of a positive and an equal negative sample over
\* equal elapsed times has imported_wh = exported_wh, and a correction of it
\* with ref_delta = 0 leaves both accumulators unchanged.
C5_PairCorrectionLeavesNetUnchanged ==
    [][(Corrected /\ PairWindow /\ RefDelta = R(0))
       => /\ delta_energy_integrate_wh = delta_energy_ret_integrate_wh
          /\ net_metered_energy_wh' = net_metered_energy_wh
          /\ net_metered_energy_ret_wh' = net_metered_energy_ret_wh]_vars

\* C5 amended: such a window has imported_wh = exported_wh, and a correction
\* of it with ref_delta = 0 uses k = 1 and adds the window's imported_wh to
\* net_metered_energy_wh and its equal exported_wh to
\* net_metered_energy_ret_wh: both grow by the same amount, and only their
\* difference is unchanged.
C5_PairCorrectionAddsWindowUnscaled ==
    [][(Corrected /\ PairWindow /\ RefDelta = R(0))
       => /\ delta_energy_integrate_wh = delta_energy_ret_integrate_wh
          /\ correction_log'[Len(correction_log')].correction_factor = R(1)
          /\ net_metered_energy_wh' =
                 RAdd(net_metered_energy_wh, delta_energy_integrate_wh)
          /\ net_metered_energy_ret_wh' =
                 RAdd(net_metered_energy_ret_wh,
                      delta_energy_ret_integrate_wh)
          /\ RSub(net_metered_energy_wh', net_metered_energy_ret_wh') =
                 RSub(net_metered_energy_wh, net_metered_energy_ret_wh)
      ]_vars

\* C5 witness: a correction with ref_delta = 0 has taken up a window of one
\* positive and one equal negative sample.
C5_Witness ==
    /\ JustCorrected
    /\ LastLine.sum_total = R(0)
    /\ LastLine.correction_factor = R(1)
    /\ LastLine.delta_energy_integrate_corrected = PairEnergy
    /\ LastLine.delta_energy_ret_integrate_corrected = PairEnergy

C7_WindowIsSumOfSamples ==
    /\ delta_energy_integrate_wh = sample_sum.pos
    /\ delta_energy_ret_integrate_wh = sample_sum.neg
    /\ RSub(delta_energy_integrate_wh, delta_energy_ret_integrate_wh)
           = RSub(sample_sum.pos, sample_sum.neg)

\* C7 witness: a window that holds both imported and exported energy, in
\* different amounts.
C7_Witness ==
    /\ RLt(R(0), delta_energy_ret_integrate_wh)
    /\ RLt(delta_energy_ret_integrate_wh, delta_energy_integrate_wh)

\* C8: once the baseline is set, as long as every successful read returns
\* the counters of the read before it, no step applies a correction, the
\* changed flag stays false, and the window is never reset: a slow tick
\* leaves it as it is and a fast tick can only add to it.
C8_NoCorrectionWhileTotalsUnchanged ==
    [][(/\ isNumber(baseline_total_energy_wh)
        /\ ~totals_varied
        /\ ~totals_varied')
       => /\ ~Corrected
          /\ correction_log' = correction_log
          /\ ~totals_changed_since_last_correction'
          /\ RLe(delta_energy_integrate_wh, delta_energy_integrate_wh')
          /\ RLe(delta_energy_ret_integrate_wh,
                 delta_energy_ret_integrate_wh')
          /\ handler' = "totalsTick" =>
                 /\ delta_energy_integrate_wh' = delta_energy_integrate_wh
                 /\ delta_energy_ret_integrate_wh' =
                        delta_energy_ret_integrate_wh]_vars

\* C8 witness: a slow tick read the unchanged counters more than the
\* debounce interval after the baseline was set, with energy in the window,
\* and no correction has been applied.
C8_Witness ==
    /\ handler = "totalsTick"
    /\ available
    /\ isNumber(baseline_total_energy_wh)
    /\ ~totals_varied
    /\ correction_log = <<>>
    /\ uptime_ms - last_correction_uptime_ms >= 5000
    /\ RLt(R(0), delta_energy_integrate_wh)

\* C9: if every read of the totals has failed (at start-up and on every slow
\* tick), the baseline is undefined, no correction has been applied and the
\* accumulators hold the values loaded at start-up.
C9_NoReadNoBaselineNoCorrection ==
    (handler # "none" /\ ~totals_read)
        => /\ ~isNumber(baseline_total_energy_wh)
           /\ ~isNumber(baseline_total_energy_ret_wh)
           /\ correction_log = <<>>
           /\ <<net_metered_energy_wh, net_metered_energy_ret_wh>> = startup

\* C9 witness: no read has succeeded, a slow tick has just failed to read
\* 5000 ms after start-up, and fast ticks have integrated energy meanwhile.
C9_Witness ==
    /\ handler = "totalsTick"
    /\ ~available
    /\ ~totals_read
    /\ uptime_ms >= 5000
    /\ RLt(R(0), delta_energy_integrate_wh)
    /\ startup = <<R(3), R(3)>>

\* All that the script's callbacks can change, but for the integrator's
\* anchor.
allButAnchor ==
    <<net_metered_energy_handle, net_metered_energy_ret_handle,
      net_metered_energy_wh, net_metered_energy_ret_wh,
      delta_energy_integrate_wh, delta_energy_ret_integrate_wh,
      baseline_total_energy_wh, baseline_total_energy_ret_wh,
      last_seen_total_energy_wh, last_seen_total_energy_ret_wh,
      totals_changed_since_last_correction, totals_last_change_uptime_ms,
      last_correction_uptime_ms, current_total_energy_wh,
      current_total_energy_ret_wh, correction_log, virtual_numbers>>

\* This step is a fast tick with no elapsed time since the anchor.
NoTimeElapsed ==
    /\ last_integration_uptime_ms # NoTime
    /\ uptime_ms' - last_integration_uptime_ms <= 0

\* C10 as stated: a fast tick on which the power sample is absent, or on
\* which the elapsed time is <= 0, mutates no state at all.
C10_NoPowerOrNoTimeIsNoOp ==
    [][(handler' = "integrationTick" /\ (~available' \/ NoTimeElapsed))
       => UNCHANGED <<allButAnchor, last_integration_uptime_ms>>]_vars

\* C10 amended: a fast tick on which the elapsed time is <= 0 mutates no
\* state at all; a fast tick on which the power sample is absent changes
\* nothing but the anchor last_integration_uptime_ms, which it sets to the
\* current uptime when the anchor was unset or time has elapsed.
C10_NoPowerMovesOnlyTheAnchor ==
    [][handler' = "integrationTick" =>
          /\ NoTimeElapsed =>
                 UNCHANGED <<allButAnchor, last_integration_uptime_ms>>
          /\ ~available' =>
                 /\ UNCHANGED allButAnchor
                 /\ last_integration_uptime_ms' =
                        IF NoTimeElapsed THEN last_integration_uptime_ms
                        ELSE uptime_ms']_vars

\* C10 witness: a fast tick that found no power sample, later than every
\* callback before it, has moved the anchor to its uptime past a window
\* that holds energy.
C10_Witness ==
    /\ handler = "integrationTick"
    /\ ~available
    /\ uptime_ms > 0
    /\ fired = {"integrationTick"}
    /\ last_integration_uptime_ms = uptime_ms
    /\ RLt(R(0), delta_energy_integrate_wh)

\* The window after one sample of the power p over dt_ms, from an empty
\* window.
WindowOf(p, dt_ms) ==
    LET wh == RMul(p, Rat(dt_ms, MS_PER_HOUR)) IN
    IF RLe(R(0), wh) THEN <<wh, R(0)>> ELSE <<R(0), RNeg(wh)>>

\* This step is the first fast tick since start-up.
FirstFastTick == handler' = "integrationTick" /\ ticked = "never"

\* C11 as stated: the first fast tick after start-up only sets the anchor
\* and adds nothing to the window, in every execution, also when slow ticks
\* (baseline initialization, a correction) ran before it.
C11_FirstTickOnlyAnchors ==
    [][FirstFastTick
       => /\ last_integration_uptime_ms' = uptime_ms'
          /\ delta_energy_integrate_wh' = delta_energy_integrate_wh
          /\ delta_energy_ret_integrate_wh' = delta_energy_ret_integrate_wh
      ]_vars

\* C11 amended: if no correction was applied before it, the first fast tick
\* after start-up finds the anchor unset, sets it and changes nothing else;
\* the baseline's initialization does not set the anchor.  A correction
\* applied before it has set the anchor to the correction's uptime and
\* emptied the window: the first fast tick then integrates its power sample
\* over the time elapsed since that correction, and adds nothing only if no
\* time has elapsed or the sample is absent.
C11_FirstTickAnchorsUnlessCorrected ==
    [][FirstFastTick
       => IF correction_log = <<>>
          THEN /\ last_integration_uptime_ms = NoTime
               /\ last_integration_uptime_ms' = uptime_ms'
               /\ UNCHANGED allButAnchor
          ELSE /\ last_integration_uptime_ms = last_correction_uptime_ms
               /\ delta_energy_integrate_wh = R(0)
               /\ delta_energy_ret_integrate_wh = R(0)
               /\ IF available' /\ uptime_ms' > last_correction_uptime_ms
                  THEN \E p \in Powers :
                          /\ isNumber(p)
                          /\ <<delta_energy_integrate_wh',
                               delta_energy_ret_integrate_wh'>> =
                                 WindowOf(p, uptime_ms'
                                             - last_correction_uptime_ms)
                  ELSE /\ delta_energy_integrate_wh' = R(0)
                       /\ delta_energy_ret_integrate_wh' = R(0)]_vars

\* C11 witness: the only fast tick so far ran after a correction and has
\* integrated energy into the window.
C11_Witness ==
    /\ handler = "integrationTick"
    /\ ticked = "once"
    /\ correction_log # <<>>
    /\ last_integration_uptime_ms > last_correction_uptime_ms
    /\ RLt(R(0), delta_energy_integrate_wh)

\* C12: a slow tick whose read of the totals fails changes nothing:
\* baseline, last_seen, the changed flag, the last-change time, the window,
\* the accumulators and every other variable of the script stay as they
\* are, nothing is logged or stored, and so a pending correction (flag set,
\* debounce elapsed) is not applied on that tick.
C12_FailedReadChangesNothing ==
    [][(handler' = "totalsTick" /\ ~available')
       => UNCHANGED <<progVars, correction_log, virtual_numbers>>]_vars

\* C12 witness: a slow tick has just failed to read the totals while a
\* correction was pending (flag set, debounce elapsed, energy in the
\* window); it is still pending.
C12_Witness ==
    /\ handler = "totalsTick"
    /\ ~available
    /\ totals_changed_since_last_correction
    /\ uptime_ms - totals_last_change_uptime_ms >= DEBOUNCE_MS
    /\ RLt(R(0), delta_energy_integrate_wh)
    /\ correction_log = <<>>

\* The window holds no energy.
WindowEmpty ==
    /\ delta_energy_integrate_wh = R(0)
    /\ delta_energy_ret_integrate_wh = R(0)

\* This step sets the baseline for the first time.
BaselineInitialized ==
    /\ ~isNumber(baseline_total_energy_wh)
    /\ isNumber(baseline_total_energy_wh')

\* C13 as stated: the window is reset to (0, 0) exactly when a correction is
\* applied: every correction resets it, and no other step sets a non-zero
\* window back to zero.
C13_WindowResetOnlyByCorrection ==
    [][/\ Corrected => WindowEmpty'
       /\ (~WindowEmpty /\ WindowEmpty') => Corrected]_vars

\* C13 amended: the window is reset to (0, 0) exactly when a correction is
\* applied or the baseline is set for the first time.  Every correction
\* resets it after adding the scaled window to the accumulators; the first
\* setting of the baseline resets it and leaves the accumulators alone, so
\* the energy integrated before the first successful read of the totals is
\* discarded; no other step sets a non-zero window back to zero.
C13_WindowResetByCorrectionOrBaseline ==
    [][/\ Corrected =>
              /\ WindowEmpty'
              /\ net_metered_energy_wh' =
                     RAdd(net_metered_energy_wh,
                          RMul(delta_energy_integrate_wh,
                               correction_log'[Len(correction_log')]
                                   .correction_factor))
              /\ net_metered_energy_ret_wh' =
                     RAdd(net_metered_energy_ret_wh,
                          RMul(delta_energy_ret_integrate_wh,
                               correction_log'[Len(correction_log')]
                                   .correction_factor))
       /\ BaselineInitialized =>
              /\ WindowEmpty'
              /\ ~Corrected
              /\ handler' = "totalsTick" =>
                     /\ net_metered_energy_wh' = net_metered_energy_wh
                     /\ net_metered_energy_ret_wh' =
                            net_metered_energy_ret_wh
       /\ (~WindowEmpty /\ WindowEmpty') =>
              Corrected \/ BaselineInitialized]_vars

\* C13 witness: the first successful read of the totals, on a slow tick,
\* has set the baseline and emptied a window that held energy; no
\* correction has been applied and the accumulators are as loaded.
C13_Witness ==
    /\ handler = "totalsTick"
    /\ available
    /\ discarded
    /\ WindowEmpty
    /\ correction_log = <<>>
    /\ last_correction_uptime_ms = uptime_ms
    /\ <<net_metered_energy_wh, net_metered_energy_ret_wh>> = startup

\* C14: in every reachable state the two baseline_total_* values and the
\* two last_seen_total_* values are defined if and only if some read of the
\* totals has succeeded (at start-up or on a slow tick): all four are
\* defined together, and since a read that succeeded stays one, they never
\* become undefined again.
C14_BaselineIffTotalsRead ==
    {isNumber(baseline_total_energy_wh),
     isNumber(baseline_total_energy_ret_wh),
     isNumber(last_seen_total_energy_wh),
     isNumber(last_seen_total_energy_ret_wh)} = {totals_read}

\* C14 witness: a read of the totals succeeded, a correction followed and a
\* later slow tick failed to read: the four values are still defined.
C14_Witness ==
    /\ handler = "totalsTick"
    /\ ~available
    /\ totals_read
    /\ correction_log # <<>>
    /\ isNumber(baseline_total_energy_wh)
    /\ isNumber(baseline_total_energy_ret_wh)
    /\ isNumber(last_seen_total_energy_wh)
    /\ isNumber(last_seen_total_energy_ret_wh)

\* C15: in every reachable state both values of the integration window are
\* >= 0, whatever the signs of the power samples and the clock readings.
C15_WindowNonNegative ==
    /\ RLe(R(0), delta_energy_integrate_wh)
    /\ RLe(R(0), delta_energy_ret_integrate_wh)

\* C15 witness: negative and positive samples have been integrated, more
\* energy exported than imported.
C15_Witness ==
    /\ RLt(R(0), delta_energy_integrate_wh)
    /\ RLt(delta_energy_integrate_wh, delta_energy_ret_integrate_wh)

\* C16: after the start-up load, the accumulators are written only by an
\* applied correction: every fast tick, and every slow tick that applies no
\* correction (the one that sets the baseline and the one that only detects
\* a change included), leaves both accumulators, their handles and the
\* stored numbers unchanged.
C16_OnlyCorrectionWritesAccumulators ==
    [][(handler' \in {"integrationTick", "totalsTick"} /\ ~Corrected)
       => UNCHANGED <<net_metered_energy_wh, net_metered_energy_ret_wh,
                      net_metered_energy_handle,
                      net_metered_energy_ret_handle, virtual_numbers>>]_vars

\* C16 witness: a slow tick has just detected a change of the totals, with
\* energy in the window and no correction applied yet; the accumulators and
\* the stored numbers are as loaded.
C16_Witness ==
    /\ handler = "totalsTick"
    /\ available
    /\ totals_changed_since_last_correction
    /\ totals_last_change_uptime_ms = uptime_ms
    /\ uptime_ms > 0
    /\ correction_log = <<>>
    /\ RLt(R(0), delta_energy_ret_integrate_wh)
    /\ <<net_metered_energy_wh, net_metered_energy_ret_wh>> = startup
    /\ startup = <<R(3), R(3)>>
    /\ virtual_numbers[NET_METERED_ENERGY_ID].value = R(3)
    /\ virtual_numbers[NET_METERED_ENERGY_RET_ID].value = R(3)

\* The accumulators a restart of the script would load from the stored
\* numbers.
Reloaded ==
    LET s == loadPersisted(State)
    IN  <<s.net_metered_energy_wh, s.net_metered_energy_ret_wh>>

\* Both handles exist and the device took what the last correction stored.
StoresSucceed ==
    /\ net_metered_energy_handle
    /\ net_metered_energy_ret_handle
    /\ ~store_failed

\* C17: when stores succeed, after start-up and after every tick the stored
\* numbers equal the accumulators in memory (a correction stores both
\* before its slow tick returns), so a restart that reloads them resumes
\* with exactly the accumulators the last correction produced, never with
\* smaller ones.
C17_StoredEqualsInMemory ==
    (handler # "none" /\ StoresSucceed)
        => /\ virtual_numbers[NET_METERED_ENERGY_ID].value =
                  net_metered_energy_wh
           /\ virtual_numbers[NET_METERED_ENERGY_RET_ID].value =
                  net_metered_energy_ret_wh
           /\ Reloaded =
                  <<net_metered_energy_wh, net_metered_energy_ret_wh>>

\* C17 witness: a correction has grown both accumulators and stored them, a
\* fast tick has run since, and a reload gives the corrected values.
C17_Witness ==
    /\ handler = "integrationTick"
    /\ StoresSucceed
    /\ correction_log # <<>>
    /\ RLt(startup[1], net_metered_energy_wh)
    /\ RLt(startup[2], net_metered_energy_ret_wh)
    /\ Reloaded = <<LastLine.net_metered_energy_wh,
                    LastLine.net_metered_energy_ret_wh>>

\* What the script and its caller can see of the state s: everything but
\* the numbers the device holds.
Visible(s) == [s EXCEPT !.virtual_numbers = <<>>]

\* The slow tick of this step looks different to the script from the same
\* tick with its stores taken by the device: in some variable or in the log.
StoreFailureReported ==
    Visible(State') #
        Visible(totalsTick(State, uptime_ms',
                           EmData(current_total_energy_wh',
                                  current_total_energy_ret_wh'), TRUE))

\* The stored numbers equal the accumulators.
StoredIsCurrent ==
    /\ virtual_numbers[NET_METERED_ENERGY_ID].value = net_metered_energy_wh
    /\ virtual_numbers[NET_METERED_ENERGY_RET_ID].value =
           net_metered_energy_ret_wh

\* C18: if the store of a correction fails, the failure is reported to the
\* caller, the accumulators in memory keep the corrected values and the
\* window is reset all the same; and the next correction whose store
\* succeeds makes the stored numbers equal to the accumulators again.
C18_StoreFailureReportedNoRollback ==
    [][/\ (Corrected /\ store_failed') =>
              /\ StoreFailureReported
              /\ net_metered_energy_wh' =
                     correction_log'[Len(correction_log')]
                         .net_metered_energy_wh
              /\ net_metered_energy_ret_wh' =
                     correction_log'[Len(correction_log')]
                         .net_metered_energy_ret_wh
              /\ RLt(net_metered_energy_wh, net_metered_energy_wh')
                     \/ RLt(net_metered_energy_ret_wh,
                            net_metered_energy_ret_wh')
                     \/ WindowEmpty
              /\ WindowEmpty'
       /\ (Corrected /\ StoresSucceed') => StoredIsCurrent']_vars

\* C18 without the report: what the code does when the store of a
\* correction fails.
C18_StoreFailureSilentNoRollback ==
    [][/\ (Corrected /\ store_failed') =>
              /\ ~StoreFailureReported
              /\ net_metered_energy_wh' =
                     correction_log'[Len(correction_log')]
                         .net_metered_energy_wh
              /\ net_metered_energy_ret_wh' =
                     correction_log'[Len(correction_log')]
                         .net_metered_energy_ret_wh
              /\ RLt(net_metered_energy_wh, net_metered_energy_wh')
                     \/ RLt(net_metered_energy_ret_wh,
                            net_metered_energy_ret_wh')
                     \/ WindowEmpty
              /\ WindowEmpty'
              /\ virtual_numbers' = virtual_numbers
       /\ (Corrected /\ StoresSucceed') => StoredIsCurrent']_vars

\* C18 witness: the device did not take the values a correction stored: the
\* accumulators hold the corrected values, the window is reset and the
\* stored numbers are stale.
C18_Witness ==
    /\ handler = "totalsTick"
    /\ store_failed
    /\ correction_log # <<>>
    /\ last_correction_uptime_ms = uptime_ms
    /\ WindowEmpty
    /\ net_metered_energy_wh = LastLine.net_metered_energy_wh
    /\ RLt(startup[1], net_metered_energy_wh)
    /\ ~StoredIsCurrent

\* C19: integration does not depend on the tick schedule.  Every fast tick
\* and every correction leaves the anchor at its own uptime, so each
\* integrating tick measures the time since the fast tick or correction
\* before it; and while every integrating tick since the window began has
\* found the same power P, the window's net (import - export) is
\* P * (time of the last fast tick - anchor the window began at) / 3600000,
\* however many ticks that time was covered with.
C19_WindowIndependentOfSchedule ==
    [][/\ handler' = "integrationTick" =>
              last_integration_uptime_ms' = uptime_ms'
       /\ Corrected => last_integration_uptime_ms' = uptime_ms'
       /\ run'.kind = "const" =>
              RSub(delta_energy_integrate_wh',
                   delta_energy_ret_integrate_wh') =
                  RMul(run'.p,
                       Rat(last_integration_uptime_ms' - run'.from,
                           MS_PER_HOUR))
       /\ run'.kind = "none" => WindowEmpty']_vars

\* C19 witness: with the power constant at -720 W, one fast tick has
\* covered 5000 ms, two clock steps, since the anchor (the tick between
\* was skipped); the window holds the 1 Wh of export that two ticks of
\* 2500 ms give.
C19_Witness ==
    /\ handler = "integrationTick"
    /\ run.kind = "const"
    /\ run.p = R(-720)
    /\ run.n = 1
    /\ last_integration_uptime_ms - run.from = 5000
    /\ delta_energy_ret_integrate_wh = R(1)
    /\ delta_energy_integrate_wh = R(0)

\* C20: right after a correction applied with the reading (t, r) at the
\* uptime now, the baseline is (t, r), the window is (0, 0), the changed
\* flag is false and the integrator's anchor is now; so the fast tick that
\* follows integrates its power sample over the time elapsed since the
\* correction and nothing else.
C20_StateAfterCorrection ==
    [][/\ Corrected =>
              /\ baseline_total_energy_wh' = current_total_energy_wh'
              /\ baseline_total_energy_ret_wh' =
                     current_total_energy_ret_wh'
              /\ WindowEmpty'
              /\ ~totals_changed_since_last_correction'
              /\ last_correction_uptime_ms' = uptime_ms'
              /\ last_integration_uptime_ms' = uptime_ms'
       /\ (JustCorrected /\ handler' = "integrationTick") =>
              IF available' /\ uptime_ms' > last_correction_uptime_ms
              THEN \E p \in Powers :
                      /\ isNumber(p)
                      /\ <<delta_energy_integrate_wh',
                           delta_energy_ret_integrate_wh'>> =
                             WindowOf(p, uptime_ms'
                                         - last_correction_uptime_ms)
              ELSE WindowEmpty']_vars

\* C20 witness: fast ticks ran before a correction, and the one after it
\* has integrated 2500 ms of import, the time since the correction, into
\* the emptied window.
C20_Witness ==
    /\ handler = "integrationTick"
    /\ ticked = "more"
    /\ correction_log # <<>>
    /\ RLt(R(0), LastLine.sum_integrated)
    /\ run.kind = "const"
    /\ run.n = 1
    /\ run.from = last_correction_uptime_ms
    /\ last_integration_uptime_ms = last_correction_uptime_ms + 2500
    /\ <<delta_energy_integrate_wh, delta_energy_ret_integrate_wh>> =
           WindowOf(R(720), 2500)

\* The raw ratio ref_delta / int_delta of the correction this step applies,
\* whether or not the script computes it.
RawRatio == RDiv(RefDelta, IntDelta)

\* This step's correction adds the window to the accumulators multiplied
\* by k, and logs k as its factor.
ScaledBy(k) ==
    /\ correction_log'[Len(correction_log')].correction_factor = k
    /\ net_metered_energy_wh' =
           RAdd(net_metered_energy_wh, RMul(delta_energy_integrate_wh, k))
    /\ net_metered_energy_ret_wh' =
           RAdd(net_metered_energy_ret_wh,
                RMul(delta_energy_ret_integrate_wh, k))

\* C21 as stated: a correction whose raw ratio ref_delta / int_delta is
\* not finite or is <= 0.001 uses k = 1 and adds the window unscaled; one
\* whose raw ratio lies in (0.001, 0.1) uses k = 0.1.  Violated: with
\* |int_delta| <= 0.001 the script never divides, and a ratio in
\* (0.001, 0.1) leaves k = 1.
C21_SmallRatioClampedToTenth ==
    [][Corrected =>
          /\ (~isNumber(RawRatio) \/ RLe(RawRatio, Rat(1, 1000)))
                 => ScaledBy(R(1))
          /\ (RLt(Rat(1, 1000), RawRatio) /\ RLt(RawRatio, Rat(1, 10)))
                 => ScaledBy(Rat(1, 10))]_vars

\* C21: a correction whose raw ratio ref_delta / int_delta is not finite
\* or is <= 0.001 uses k = 1 and adds the window unscaled; one whose raw
\* ratio lies in (0.001, 0.1) uses k = 0.1 if |int_delta| > 0.001, and
\* k = 1 if |int_delta| <= 0.001.
C21_FallbackToOneClampToTenth ==
    [][Corrected =>
          /\ (~isNumber(RawRatio) \/ RLe(RawRatio, Rat(1, 1000)))
                 => ScaledBy(R(1))
          /\ (/\ RLt(Rat(1, 1000), RawRatio) /\ RLt(RawRatio, Rat(1, 10))
              /\ RLt(ENERGY_EPSILON_WH, RAbs(IntDelta)))
                 => ScaledBy(Rat(1, 10))
          /\ (/\ RLt(Rat(1, 1000), RawRatio) /\ RLt(RawRatio, Rat(1, 10))
              /\ ~RLt(ENERGY_EPSILON_WH, RAbs(IntDelta)))
                 => ScaledBy(R(1))]_vars

\* C21 witness: a correction of a window holding export only against
\* counters whose net advanced (deltas of opposite signs, a negative
\* ratio) that fell back to k = 1 and added the export unscaled.
C21_Witness ==
    /\ JustCorrected
    /\ RLt(LastLine.sum_integrated, R(0))
    /\ RLt(R(0), LastLine.sum_total)
    /\ LastLine.correction_factor = R(1)
    /\ RLt(R(0), LastLine.delta_energy_ret_integrate_corrected)

\* The baseline has been initialized.
HasBaseline ==
    /\ isNumber(baseline_total_energy_wh)
    /\ isNumber(baseline_total_energy_ret_wh)

\* The baseline equals the counters last seen, in both fields.
BaselineIsLastSeen ==
    /\ baseline_total_energy_wh = last_seen_total_energy_wh
    /\ baseline_total_energy_ret_wh = last_seen_total_energy_ret_wh

\* C22: once the baseline is initialized, whenever
\* totals_changed_since_last_correction is false the baseline equals the
\* counters last seen in both fields; and on a device whose counters never
\* decrease, whenever the flag is true the baseline differs from the
\* counters last seen.
C22_FlagTellsBaselineFromLastSeen ==
    HasBaseline =>
        /\ ~totals_changed_since_last_correction => BaselineIsLastSeen
        /\ (counters = "monotone" /\ totals_changed_since_last_correction)
               => ~BaselineIsLastSeen

\* C22 witness: on a device whose counters never decrease, a correction
\* has moved the baseline and cleared the flag, and a later slow tick has
\* found the counters advanced again: the flag is true and the baseline
\* differs from the counters last seen.
C22_Witness ==
    /\ counters = "monotone"
    /\ HasBaseline
    /\ correction_log # <<>>
    /\ totals_changed_since_last_correction
    /\ ~BaselineIsLastSeen
    /\ baseline_total_energy_wh # R(0)

\* This step wrote other counters over counters last seen before: a slow
\* tick detected a change of the counters.
ChangeDetected ==
    /\ isNumber(last_seen_total_energy_wh)
    /\ isNumber(last_seen_total_energy_ret_wh)
    /\ <<last_seen_total_energy_wh', last_seen_total_energy_ret_wh'>>
           # <<last_seen_total_energy_wh, last_seen_total_energy_ret_wh>>

\* C23: a slow tick that detects a change of the counters applies no
\* correction: it sets the flag and records the change time, and leaves
\* accumulators, window and baseline alone.  So the counters (t, r) a
\* correction uses are the counters last seen, written by a slow tick at
\* least 5000 ms earlier: two successful reads gave the same counters.
C23_CorrectionUsesCountersSeenBefore ==
    [][/\ ChangeDetected =>
              /\ handler' = "totalsTick"
              /\ ~Corrected
              /\ totals_changed_since_last_correction'
              /\ totals_last_change_uptime_ms' = uptime_ms'
              /\ UNCHANGED <<net_metered_energy_wh,
                             net_metered_energy_ret_wh,
                             delta_energy_integrate_wh,
                             delta_energy_ret_integrate_wh,
                             baseline_total_energy_wh,
                             baseline_total_energy_ret_wh>>
       /\ Corrected =>
              /\ handler' = "totalsTick"
              /\ ~ChangeDetected
              /\ current_total_energy_wh' = last_seen_total_energy_wh
              /\ current_total_energy_ret_wh' = last_seen_total_energy_ret_wh
              /\ baseline_total_energy_wh' = last_seen_total_energy_wh
              /\ baseline_total_energy_ret_wh' =
                     last_seen_total_energy_ret_wh
              /\ seen.by = "totalsTick"
              /\ seen.at = totals_last_change_uptime_ms
              /\ uptime_ms' - seen.at >= DEBOUNCE_MS]_vars

\* C23 witness: a correction applied 5000 ms or more after a slow tick,
\* itself later than start-up, wrote the counters the correction used.
C23_Witness ==
    /\ JustCorrected
    /\ seen.by = "totalsTick"
    /\ seen.at > 0
    /\ uptime_ms - seen.at >= DEBOUNCE_MS
    /\ baseline_total_energy_wh = last_seen_total_energy_wh
    /\ baseline_total_energy_ret_wh = last_seen_total_energy_ret_wh

\* A change of the counters is flagged, early enough for the debounce to
\* elapse before the clock of the model stops at MaxUptime.
ChangePending ==
    /\ totals_changed_since_last_correction
    /\ totals_last_change_uptime_ms + DEBOUNCE_MS <= MaxUptime

\* C24: if the counters change once after the baseline was set and then
\* stay, every slow tick reads them and slow ticks keep firing, a flagged
\* change leads to a correction that clears the flag; and if no successful
\* read gives the counters of the read before it, every slow tick that
\* reads them restarts the debounce and no correction is ever applied.
C24_SettledChangeIsCorrected ==
    /\ (counters = "settle" /\ ChangePending)
           ~> (~totals_changed_since_last_correction
                  /\ correction_log # <<>>)
    /\ [](counters = "restless" => correction_log = <<>>)
    /\ [][(/\ counters = "restless"
           /\ handler' = "totalsTick"
           /\ available'
           /\ HasBaseline)
             => /\ totals_changed_since_last_correction'
                /\ totals_last_change_uptime_ms' = uptime_ms']_vars

\* C24 witness: on counters that changed once and then stayed, a slow tick
\* has applied the correction and cleared the flag.
C24_Witness ==
    /\ counters = "settle"
    /\ JustCorrected
    /\ ~totals_changed_since_last_correction
    /\ totals_varied = FALSE
    /\ baseline_total_energy_wh = current_total_energy_wh

=============================================================================
